---- MODULE Spec2Model ----
(***************************************************************************)
(* Model of the two command-line scripts ytd.py (single video) and ytdp.py *)
(* (video or playlist): argument handling, metadata retrieval, format      *)
(* selection, playlist aggregation, the confirmation prompt, the download  *)
(* call and the exit status.  yt_dlp, the terminal and the file system are *)
(* the environment: what they return is chosen nondeterministically.       *)
(***************************************************************************)
EXTENDS Integers, Sequences, FiniteSets, TLC

\* ------------------------------------------------------------------ bounds
MaxFormats == 2     \* longest 'formats' list of a single video
MaxEntries == 2     \* longest 'entries' list of a playlist
MaxRetries == 2     \* most invalid answers typed at the confirmation prompt

\* ------------------------------------------------- Python values and dicts
\* d.get(k, default): a key may be missing, or present and bound to None.
ABSENT == -2
NONE == -1
AbsentStr == "<absent>"

Get(v, default) == IF v = ABSENT THEN default ELSE v
GetNone(v) == IF v = ABSENT THEN NONE ELSE v
GetStr(v, default) == IF v = AbsentStr THEN default ELSE v
\* truth value of an int-or-None
Truthy(v) == v # NONE /\ v # 0

\* ------------------------------------------------------------ exceptions
\* An exception is its type and its message; a message is kept structured:
\* the chain of "prefix: " wrappers, the text, and the values formatted in.
NoLabel == <<>>
Exc(type, text) ==
    [type |-> type, wraps |-> <<>>, text |-> text,
     label |-> NoLabel, heights |-> <<>>, suggest |-> <<>>]
\* str(e)
StrOf(e) == [wraps |-> e.wraps, text |-> e.text,
             label |-> e.label, heights |-> e.heights, suggest |-> e.suggest]
\* Exception(f"{prefix}: {str(e)}")
WrapExc(prefix, e) == [e EXCEPT !.type = "Exception", !.wraps = <<prefix>> \o e.wraps]
NoExc == Exc("none", "")

\* --------------------------------------------------- resolution labels
DigitChars == <<"0", "1", "2", "3", "4", "5", "6", "7", "8", "9">>
IsDigit(c) == \E i \in 1..10 : DigitChars[i] = c
DigitVal(c) == (CHOOSE i \in 1..10 : DigitChars[i] = c) - 1

\* resolution[:-1]
DropLast(s) == IF s = <<>> THEN <<>> ELSE SubSeq(s, 1, Len(s) - 1)

\* int(s) raises ValueError unless s is a non-empty run of digits
IsIntLiteral(s) == s # <<>> /\ \A i \in 1..Len(s) : IsDigit(s[i])
RECURSIVE IntOf(_)
IntOf(s) == IF s = <<>> THEN 0
            ELSE IntOf(DropLast(s)) * 10 + DigitVal(s[Len(s)])

\* f"{n}" for n >= 0
RECURSIVE StrOfInt(_)
StrOfInt(n) == IF n < 10 THEN <<DigitChars[n + 1]>>
               ELSE StrOfInt(n \div 10) \o <<DigitChars[(n % 10) + 1]>>
\* f"{h}p"
LabelOf(h) == StrOfInt(h) \o <<"p">>

\* sorted(set(...)) of a finite set of integers
RECURSIVE SortedSeq(_)
SortedSeq(S) == IF S = {} THEN <<>>
                ELSE LET m == CHOOSE x \in S : \A y \in S : x <= y
                     IN  <<m>> \o SortedSeq(S \ {m})

\* ------------------------------------------------------ find_closest_resolution
RECURSIVE ClosestFrom(_, _, _)
ClosestFrom(sorted, k, target_height) ==
    IF k = 0 THEN sorted[1]
    ELSE IF sorted[k] <= target_height THEN sorted[k]
    ELSE ClosestFrom(sorted, k - 1, target_height)

find_closest_resolution(available_heights, target_height) ==
    IF available_heights = <<>> THEN NONE
    ELSE LET sorted == SortedSeq({available_heights[i] : i \in DOMAIN available_heights})
         IN  ClosestFrom(sorted, Len(sorted), target_height)

\* ------------------------------------------------------------- selection
\* sorted(set(f.get('height', 0) for f in formats if f.get('height')))
HeightsOf(formats) ==
    SortedSeq({Get(formats[i].height, 0) :
                 i \in {j \in DOMAIN formats : Truthy(GetNone(formats[j].height))}})

\* a > b on int-or-None operands: TypeError when either is None
GtRaises(a, b) == a = NONE \/ b = NONE

\* The audio loop of both scripts.  Result: index of the chosen format,
\* 0 for None, -1 when a comparison raised TypeError.
RECURSIVE BestAudioFrom(_, _, _)
BestAudioFrom(formats, i, best) ==
    IF i > Len(formats) THEN best
    ELSE LET f == formats[i] IN
         IF f.acodec # "none" /\ f.vcodec = "none"
         THEN IF best = 0 THEN BestAudioFrom(formats, i + 1, i)
              ELSE LET a == Get(f.filesize, 0)
                       b == Get(formats[best].filesize, 0)
                   IN  IF GtRaises(a, b) THEN -1
                       ELSE BestAudioFrom(formats, i + 1, IF a > b THEN i ELSE best)
         ELSE BestAudioFrom(formats, i + 1, best)
BestAudio(formats) == BestAudioFrom(formats, 1, 0)

\* ytd.py: the video loop, strict height <= target, tallest wins.
RECURSIVE YtdBestVideoFrom(_, _, _, _)
YtdBestVideoFrom(formats, target_height, i, best) ==
    IF i > Len(formats) THEN best
    ELSE LET f == formats[i]
             height == Get(f.height, 0)
         IN  IF Truthy(height) /\ height <= target_height /\ f.vcodec # "none"
                /\ (best = 0 \/ height > Get(formats[best].height, 0))
             THEN YtdBestVideoFrom(formats, target_height, i + 1, i)
             ELSE YtdBestVideoFrom(formats, target_height, i + 1, best)
YtdBestVideo(formats, target_height) == YtdBestVideoFrom(formats, target_height, 1, 0)

\* ytdp.py: the video loop, height == selected height, largest file wins.
RECURSIVE YtdpBestVideoFrom(_, _, _, _)
YtdpBestVideoFrom(formats, target_height, i, best) ==
    IF i > Len(formats) THEN best
    ELSE LET f == formats[i]
             height == Get(f.height, 0)
         IN  IF height = target_height /\ f.vcodec # "none"
             THEN IF best = 0 THEN YtdpBestVideoFrom(formats, target_height, i + 1, i)
                  ELSE LET a == Get(f.filesize, 0)
                           b == Get(formats[best].filesize, 0)
                       IN  IF GtRaises(a, b) THEN -1
                           ELSE YtdpBestVideoFrom(formats, target_height, i + 1,
                                                  IF a > b THEN i ELSE best)
             ELSE YtdpBestVideoFrom(formats, target_height, i + 1, best)
YtdpBestVideo(formats, target_height) == YtdpBestVideoFrom(formats, target_height, 1, 0)

\* next((h for h in available_heights if h <= target_height), available_heights[0])
RECURSIVE FirstAtMost(_, _, _)
FirstAtMost(available_heights, k, target_height) ==
    IF k > Len(available_heights) THEN available_heights[1]
    ELSE IF available_heights[k] <= target_height THEN available_heights[k]
    ELSE FirstAtMost(available_heights, k + 1, target_height)
SuggestHeight(available_heights, target_height) ==
    FirstAtMost(available_heights, 1, target_height)

\* ----------------------------------------------------- function outcomes
NoVal == [title |-> ""]
Ret(v) == [ok |-> TRUE, val |-> v, exc |-> NoExc]
Raise(e) == [ok |-> FALSE, val |-> NoVal, exc |-> e]

\* what ydl.extract_info(url, download=False) gave: an info dict, None, or
\* an exception.  'formats' may be missing, None, or a list.
NoInfo == [status |-> "unset", title |-> AbsentStr, duration |-> ABSENT,
           formatsKey |-> "absent", formats |-> <<>>]
\* variant: "if formats is None", which lets an empty list through
FormatsIsNone(info) == info.formatsKey # "list"
\* if not formats:
FormatsFalsy(info) == info.formatsKey # "list" \/ info.formats = <<>>

\* ytd.py get_video_info, the body of its try block after extract_info
YtdSelect(info, resolution) ==
    LET target_height == IntOf(DropLast(resolution))
        title == GetStr(info.title, "Unknown Title")
        duration == Get(info.duration, 0)
        formats == info.formats
        bv == YtdBestVideo(formats, target_height)
        ba == BestAudio(formats)
        available_heights == HeightsOf(formats)
        video_size == Get(formats[bv].filesize, 0)
        audio_size == IF ba # 0 THEN Get(formats[ba].filesize, 0) ELSE 0
    IN  IF FormatsFalsy(info)
        THEN Raise(Exc("ValueError", "No formats available for this video"))
        ELSE IF ba = -1
        THEN Raise(Exc("TypeError", "'>' not supported with NoneType"))
        ELSE IF bv = 0
        THEN IF available_heights # <<>>
             THEN Raise([Exc("ValueError", "No format found. Available resolutions. Try")
                           EXCEPT !.label = resolution,
                                  !.heights = available_heights,
                                  !.suggest = LabelOf(SuggestHeight(available_heights,
                                                                    target_height))])
             ELSE Raise(Exc("ValueError", "No suitable video formats found"))
        ELSE IF video_size = NONE \/ audio_size = NONE
        THEN Raise(Exc("TypeError", "unsupported operand type(s) for +: NoneType"))
        ELSE Ret([title |-> title, duration |-> duration,
                  size |-> video_size + audio_size,
                  resolution |-> LabelOf(Get(formats[bv].height, 0))])

\* ytdp.py get_video_info, the single-video branch of its try block
YtdpSelect(info, resolution) ==
    LET title == GetStr(info.title, "Unknown Title")
        duration == Get(info.duration, 0)
        formats == info.formats
        available_heights == HeightsOf(formats)
        target_height == find_closest_resolution(available_heights,
                                                 IntOf(DropLast(resolution)))
        bv == YtdpBestVideo(formats, target_height)
        ba == BestAudio(formats)
        video_size == Get(formats[bv].filesize, 0)
        audio_size == IF ba # 0 THEN Get(formats[ba].filesize, 0) ELSE 0
    IN  IF FormatsFalsy(info)
        THEN Raise(Exc("ValueError", "No formats available for this video"))
        ELSE IF available_heights = <<>>
        THEN Raise(Exc("ValueError", "No video formats with height information found"))
        ELSE IF target_height = NONE
        THEN Raise(Exc("ValueError", "No suitable video formats found"))
        ELSE IF bv = -1 \/ ba = -1
        THEN Raise(Exc("TypeError", "'>' not supported with NoneType"))
        ELSE IF bv = 0
        THEN Raise(Exc("AttributeError", "'NoneType' object has no attribute 'get'"))
        ELSE IF video_size = NONE \/ audio_size = NONE
        THEN Raise(Exc("TypeError", "unsupported operand type(s) for +: NoneType"))
        ELSE Ret([is_playlist |-> FALSE, title |-> title, duration |-> duration,
                  size |-> video_size + audio_size,
                  resolution |-> LabelOf(target_height),
                  available_resolutions |->
                      [k \in DOMAIN available_heights |-> LabelOf(available_heights[k])]])

\* The try block of get_video_info for one video, from what extract_info
\* gave to the return value, every exception re-raised wrapped.
YtdTry(fetch, resolution) ==
    LET r == IF fetch.status = "raise"
             THEN Raise(Exc("DownloadError", "extraction failed"))
             ELSE IF fetch.status = "none"
             THEN Raise(Exc("ValueError", "Could not fetch video information"))
             ELSE YtdSelect(fetch, resolution)
    IN  IF r.ok THEN r ELSE Raise(WrapExc("Failed to get video info", r.exc))

YtdpTry(fetch, resolution) ==
    LET r == IF fetch.status = "raise"
             THEN Raise(Exc("DownloadError", "extraction failed"))
             ELSE IF fetch.status = "none"
             THEN Raise(Exc("ValueError", "Could not fetch information"))
             ELSE YtdpSelect(fetch, resolution)
    IN  IF r.ok THEN r ELSE Raise(WrapExc("Failed to get info", r.exc))

\* ------------------------------------------------------------ environment
\* Format dicts yt_dlp may return: video-only, muxed, audio-only, and
\* storyboard-like entries (a height, vcodec 'none', acodec 'none').
Fmt(h, v, a, s) == [height |-> h, vcodec |-> v, acodec |-> a, filesize |-> s]
FormatSet ==
    { Fmt(360, "avc1", "none", 10),
      Fmt(720, "avc1", "none", 20),
      Fmt(720, "avc1", "mp4a", ABSENT),
      Fmt(1080, "vp9", "none", NONE),
      Fmt(ABSENT, "none", "mp4a", 5),
      Fmt(NONE, "none", "opus", NONE),
      Fmt(90, "none", "none", ABSENT),
      Fmt(180, "none", "none", ABSENT) }

RECURSIVE SeqsUpTo(_, _)
SeqsUpTo(S, n) == IF n = 0 THEN {<<>>}
                  ELSE LET shorter == SeqsUpTo(S, n - 1)
                       IN  shorter \cup {Append(q, x) : q \in shorter, x \in S}

Info(t, d, k, fs) == [status |-> "info", title |-> t, duration |-> d,
                      formatsKey |-> k, formats |-> fs]
FetchNone == [NoInfo EXCEPT !.status = "none"]
FetchRaise == [NoInfo EXCEPT !.status = "raise"]

\* outcomes of extract_info for one video URL
Fetches ==
    { Info("T", d, "list", fs) : d \in {ABSENT, NONE, 60},
                                 fs \in SeqsUpTo(FormatSet, MaxFormats) }
    \cup { Info(AbsentStr, 60, k, <<>>) : k \in {"absent", "none"} }
    \cup { FetchNone, FetchRaise }

\* outcomes of extract_info for the URL of one playlist entry
EntryFetches ==
    { Info("A", 60, "list", <<Fmt(720, "avc1", "none", 20), Fmt(ABSENT, "none", "mp4a", 5)>>),
      Info(AbsentStr, ABSENT, "list", <<Fmt(360, "avc1", "none", 10)>>),
      Info("C", NONE, "list", <<Fmt(360, "avc1", "none", 10)>>),
      Info("D", 60, "list", <<>>),
      FetchRaise }

\* entries of a flat playlist: None, a dict without 'url', a dict with one
Entry(p, u, t) == [present |-> p, url |-> u, title |-> t]
EntrySet == { Entry(FALSE, AbsentStr, AbsentStr), Entry(TRUE, AbsentStr, "A"),
              Entry(TRUE, "u1", "A"), Entry(TRUE, "u2", AbsentStr) }
NoPlaylist == [status |-> "unset", title |-> AbsentStr, entries |-> <<>>]
PlaylistFetches ==
    { [status |-> "info", title |-> "P", entries |-> es] :
          es \in SeqsUpTo(EntrySet, MaxEntries) }
    \cup { [status |-> "info", title |-> AbsentStr, entries |-> <<e>>] : e \in EntrySet }
    \cup { [NoPlaylist EXCEPT !.status = "none"], [NoPlaylist EXCEPT !.status = "raise"] }

\* command lines
Url(path, list) == [path |-> path, list |-> list]
Urls == { Url("watch", FALSE), Url("watch", TRUE), Url("playlist", TRUE) }
NoUrl == Url("", FALSE)
L144 == <<"1", "4", "4", "p">>
L720 == <<"7", "2", "0", "p">>
L1080 == <<"1", "0", "8", "0", "p">>
LBest == <<"h", "d">>
Labels == { L144, L720, LBest }

\* answers typed at the prompt
Answers == { <<"y">>, <<"n">>, <<"Y">>, <<"N">>, <<"y", "e", "s">> }
\* variant: the answer compared as typed
LowerOmitted(s) == s
\* str.lower()
LowerChar(c) == CASE c = "Y" -> "y" [] c = "N" -> "n" [] c = "E" -> "e"
                  [] c = "S" -> "s" [] c = "O" -> "o" [] OTHER -> c
Lower(s) == [k \in DOMAIN s |-> LowerChar(s[k])]
Yes == <<"y">>
No == <<"n">>

\* ------------------------------------------------------------------ state
VARIABLES
    prog,            \* "ytd" or "ytdp": the script that runs
    argv,            \* [argc, url, resolution]: sys.argv
    pc,              \* where the run is
    resolution,      \* download_video's resolution argument
    info,            \* get_video_info: what extract_info gave (single video)
    result,          \* download_video: what get_video_info returned
    exc,             \* the exception propagating out of download_video's body
    entries,         \* playlist branch: info.get('entries', [])
    playlist_title,  \* playlist branch: info.get('title', 'Unknown Playlist')
    i,               \* playlist branch: index of the next entry (from 1)
    videos_info,     \* playlist branch
    skipped_videos,  \* playlist branch
    total_size,      \* playlist branch
    total_duration,  \* playlist branch
    attempts,        \* per entry handled so far: how its handling ended
    progress,        \* the "Analyzed i/N videos..." lines printed, as <<i, N>>
    shown,           \* the summary printed before the prompt
    responses,       \* the answers read by input(), as typed
    mkdir_calls,     \* output_dir.mkdir calls made
    download_calls,  \* ydl.download calls made, each with its height bound
    printed_error,   \* the "Error occurred: ..." line, when printed
    exit_status      \* the process's exit status, NONE while it runs

vars == <<prog, argv, pc, resolution, info, result, exc, entries, playlist_title, i,
          videos_info, skipped_videos, total_size, total_duration, attempts,
          progress, shown, responses, mkdir_calls, download_calls,
          printed_error, exit_status>>

loopVars == <<entries, playlist_title, i, videos_info, skipped_videos,
              total_size, total_duration, attempts, progress>>
ioVars == <<shown, responses, mkdir_calls, download_calls, printed_error, exit_status>>

NoResult == [title |-> ""]
NoShown == [kind |-> "none", size_text |-> "", resolution |-> NoLabel]
NoStr == StrOf(NoExc)

\* 'playlist' in url or '&list=' in url
IsPlaylistUrl(url) == url.path = "playlist" \/ url.list

Init ==
    /\ prog \in {"ytd", "ytdp"}
    /\ argv \in { [argc |-> 1, url |-> NoUrl, resolution |-> NoLabel] }
          \cup { [argc |-> 2, url |-> u, resolution |-> NoLabel] : u \in Urls }
          \cup { [argc |-> 3, url |-> u, resolution |-> NoLabel] : u \in Urls }
          \cup { [argc |-> 4, url |-> u, resolution |-> r] : u \in Urls, r \in Labels }
    /\ pc = "main"
    /\ resolution = NoLabel
    /\ info = NoInfo
    /\ result = NoResult
    /\ exc = NoExc
    /\ entries = <<>>
    /\ playlist_title = ""
    /\ i = 0
    /\ videos_info = <<>>
    /\ skipped_videos = <<>>
    /\ total_size = 0
    /\ total_duration = 0
    /\ attempts = <<>>
    /\ progress = <<>>
    /\ shown = NoShown
    /\ responses = <<>>
    /\ mkdir_calls = 0
    /\ download_calls = <<>>
    /\ printed_error = NoStr
    /\ exit_status = NONE

\* --------------------------------------------------------------- __main__
\* len(sys.argv) < 3: usage, sys.exit(1)
Usage ==
    /\ pc = "main"
    /\ argv.argc < 3
    /\ pc' = "exited"
    /\ exit_status' = 1
    /\ UNCHANGED <<prog, argv, resolution, info, result, exc, loopVars,
                   shown, responses, mkdir_calls, download_calls, printed_error>>

\* resolution = sys.argv[3] if len(sys.argv) > 3 else "1080p"; download_video(...)
Main ==
    /\ pc = "main"
    /\ argv.argc >= 3
    /\ resolution' = IF argv.argc > 3 THEN argv.resolution ELSE L1080
    /\ pc' = "get_video_info"
    /\ UNCHANGED <<prog, argv, info, result, exc, loopVars, ioVars>>

\* ---------------------------------------------------------- get_video_info
InPlaylistBranch == prog = "ytdp" /\ IsPlaylistUrl(argv.url)

\* target_height = int(resolution[:-1]) raises ValueError, before the try
BadResolution ==
    /\ pc = "get_video_info"
    /\ ~IsIntLiteral(DropLast(resolution))
    /\ exc' = Exc("ValueError", "invalid literal for int()")
    /\ pc' = "raised"
    /\ UNCHANGED <<prog, argv, resolution, info, result, loopVars, ioVars>>

\* info = ydl.extract_info(url, download=False), single video
ExtractInfo ==
    /\ pc = "get_video_info"
    /\ IsIntLiteral(DropLast(resolution))
    /\ ~InPlaylistBranch
    /\ \E fetch \in Fetches : info' = fetch
    /\ pc' = "select"
    /\ UNCHANGED <<prog, argv, resolution, result, exc, loopVars, ioVars>>

GetVideoInfo(fetch, res) == IF prog = "ytd" THEN YtdTry(fetch, res) ELSE YtdpTry(fetch, res)

\* the rest of the try block for a single video: return, or raise wrapped
SelectFormats ==
    /\ pc = "select"
    /\ LET r == GetVideoInfo(info, resolution)
       IN  IF r.ok
           THEN /\ result' = r.val
                /\ pc' = "display"
                /\ exc' = exc
           ELSE /\ exc' = r.exc
                /\ pc' = "raised"
                /\ result' = result
    /\ info' = NoInfo
    /\ UNCHANGED <<prog, argv, resolution, loopVars, ioVars>>

\* ytdp.py, is_playlist: extract_info(extract_flat), the checks before the loop
ExtractPlaylist ==
    /\ pc = "get_video_info"
    /\ IsIntLiteral(DropLast(resolution))
    /\ InPlaylistBranch
    /\ \E fetch \in PlaylistFetches :
         IF fetch.status = "info" /\ fetch.entries # <<>>
         THEN /\ playlist_title' = GetStr(fetch.title, "Unknown Playlist")
              /\ entries' = fetch.entries
              /\ i' = 1
              /\ pc' = "loop"
              /\ exc' = exc
         ELSE /\ exc' = WrapExc("Failed to get info",
                          IF fetch.status = "raise"
                          THEN Exc("DownloadError", "extraction failed")
                          ELSE IF fetch.status = "none"
                          THEN Exc("ValueError", "Could not fetch information")
                          ELSE Exc("ValueError", "No videos found in playlist"))
              /\ pc' = "raised"
              /\ UNCHANGED <<playlist_title, entries, i>>
    /\ UNCHANGED <<prog, argv, resolution, info, result, videos_info, skipped_videos,
                   total_size, total_duration, attempts, progress, ioVars>>

\* if video_url:
UrlTruthy(u) == u # AbsentStr /\ u # ""

\* variant: entry['title'] recorded without the 'Unknown Title' default
SkipRecordRawTitle(entry, e) ==
    [title |-> entry.title, url |-> entry.url, reason |-> StrOf(e)]
\* the dict appended to skipped_videos in the except clause
SkipRecord(entry, e) ==
    [title |-> GetStr(entry.title, "Unknown Title"), url |-> entry.url, reason |-> StrOf(e)]

\* variant: enumerate(entries) counting from 0
ProgressLineFromZero(k, n) == <<k - 1, n>>
\* print(f"\rAnalyzed {i}/{len(entries)} videos...") with i from enumerate(entries, 1)
ProgressLine(k, n) == <<k, n>>

\* One iteration of the loop over the entries.
AnalyzeEntry ==
    /\ pc = "loop"
    /\ i <= Len(entries)
    /\ LET entry == entries[i]
           Skip(e) == SkipRecord(entry, e)
       IN  IF entry.present /\ UrlTruthy(entry.url)
           THEN \E fetch \in EntryFetches :
                  LET r == YtdpTry(fetch, resolution) IN
                  IF ~r.ok
                  THEN /\ skipped_videos' = Append(skipped_videos, Skip(r.exc))
                       /\ attempts' = Append(attempts, "raised")
                       /\ UNCHANGED <<videos_info, total_size, total_duration, progress>>
                  ELSE /\ videos_info' = Append(videos_info, r.val)
                       /\ total_size' = total_size + r.val.size
                       /\ IF r.val.duration = NONE
                          THEN \* total_duration += None raises TypeError
                               /\ skipped_videos' = Append(skipped_videos,
                                     Skip(Exc("TypeError",
                                              "unsupported operand type(s) for +=: NoneType")))
                               /\ attempts' = Append(attempts, "added_then_raised")
                               /\ UNCHANGED <<total_duration, progress>>
                          ELSE /\ total_duration' = total_duration + r.val.duration
                               /\ progress' = Append(progress, ProgressLine(i, Len(entries)))
                               /\ attempts' = Append(attempts, "added")
                               /\ UNCHANGED skipped_videos
           ELSE /\ attempts' = Append(attempts, "ignored")
                /\ UNCHANGED <<videos_info, skipped_videos, total_size,
                               total_duration, progress>>
    /\ i' = i + 1
    /\ UNCHANGED <<prog, argv, pc, resolution, info, result, exc, entries,
                   playlist_title, ioVars>>

\* the loop is over: return the playlist summary
FinishPlaylist ==
    /\ pc = "loop"
    /\ i > Len(entries)
    /\ result' = [is_playlist |-> TRUE, title |-> playlist_title,
                  video_count |-> Len(videos_info), videos |-> videos_info,
                  skipped_videos |-> skipped_videos, total_size |-> total_size,
                  total_duration |-> total_duration]
    /\ pc' = "display"
    /\ UNCHANGED <<prog, argv, resolution, info, exc, loopVars, ioVars>>

\* ---------------------------------------------------------- download_video
\* "Estimated size: ... MB" when the size in MB is > 0, else "Unknown"
SizeText(size) == IF (IF size > 0 THEN size ELSE 0) > 0 THEN "MB" ELSE "Unknown"

\* The summary printed before the prompt.  info['duration'] > 0 raises
\* TypeError when the duration is None.
Display ==
    /\ pc = "display"
    /\ IF prog = "ytdp" /\ result.is_playlist
       THEN /\ shown' = [kind |-> "playlist", size_text |-> SizeText(result.total_size),
                         resolution |-> NoLabel]
            /\ pc' = "prompt"
            /\ exc' = exc
       ELSE IF result.duration = NONE
       THEN /\ exc' = Exc("TypeError", "'>' not supported with NoneType")
            /\ pc' = "raised"
            /\ shown' = shown
       ELSE /\ shown' = [kind |-> "video", size_text |-> SizeText(result.size),
                         resolution |-> result.resolution]
            /\ pc' = "prompt"
            /\ exc' = exc
    /\ UNCHANGED <<prog, argv, resolution, info, result, loopVars,
                   responses, mkdir_calls, download_calls, printed_error, exit_status>>

\* response = input(...).lower(); leave the loop on 'y' or 'n'
Prompt ==
    /\ pc = "prompt"
    /\ \E typed \in Answers :
         LET response == Lower(typed) IN
         /\ response \in {Yes, No} \/ Len(responses) < MaxRetries
         /\ responses' = Append(responses, typed)
         /\ pc' = IF response = No THEN "return"
                  ELSE IF response = Yes THEN "mkdir"
                  ELSE "prompt"
    /\ UNCHANGED <<prog, argv, resolution, info, result, exc, loopVars,
                   shown, mkdir_calls, download_calls, printed_error, exit_status>>

\* input() raises EOFError when standard input is closed
PromptEOF ==
    /\ pc = "prompt"
    /\ exc' = Exc("EOFError", "EOF when reading a line")
    /\ pc' = "raised"
    /\ UNCHANGED <<prog, argv, resolution, info, result, loopVars, ioVars>>

\* output_dir.mkdir(parents=True, exist_ok=True): done, or OSError
Mkdir ==
    /\ pc = "mkdir"
    /\ mkdir_calls' = mkdir_calls + 1
    /\ \E done \in BOOLEAN :
         IF done THEN pc' = "download" /\ exc' = exc
         ELSE pc' = "raised" /\ exc' = Exc("OSError", "cannot create directory")
    /\ UNCHANGED <<prog, argv, resolution, info, result, loopVars,
                   shown, responses, download_calls, printed_error, exit_status>>

\* the height bound in ydl_opts['format']
FormatHeight == IF prog = "ytd" THEN DropLast(resolution) ELSE <<"1", "4", "4">>

\* ydl.download([url]): done, or an exception
Download ==
    /\ pc = "download"
    /\ download_calls' = Append(download_calls, [url |-> argv.url, height |-> FormatHeight])
    /\ \E done \in BOOLEAN :
         IF done THEN pc' = "return" /\ exc' = exc
         ELSE pc' = "raised" /\ exc' = Exc("DownloadError", "download error")
    /\ UNCHANGED <<prog, argv, resolution, info, result, loopVars,
                   shown, responses, mkdir_calls, printed_error, exit_status>>

\* status of a process whose main script caught the exception and ran off its end
StatusAfterError == 0

\* download_video's except re-raises "Download failed: ..."; __main__'s except
\* prints "Error occurred: ..." and the script ends
HandleError ==
    /\ pc = "raised"
    /\ printed_error' = StrOf(WrapExc("Download failed", exc))
    /\ exit_status' = StatusAfterError
    /\ pc' = "exited"
    /\ UNCHANGED <<prog, argv, resolution, info, result, exc, loopVars,
                   shown, responses, mkdir_calls, download_calls>>

\* download_video returned; the script ends
Exit ==
    /\ pc = "return"
    /\ exit_status' = 0
    /\ pc' = "exited"
    /\ UNCHANGED <<prog, argv, resolution, info, result, exc, loopVars,
                   shown, responses, mkdir_calls, download_calls, printed_error>>

Next ==
    \/ Usage
    \/ Main
    \/ BadResolution
    \/ ExtractInfo
    \/ SelectFormats
    \/ ExtractPlaylist
    \/ AnalyzeEntry
    \/ FinishPlaylist
    \/ Display
    \/ Prompt
    \/ PromptEOF
    \/ Mkdir
    \/ Download
    \/ HandleError
    \/ Exit

Spec == Init /\ [][Next]_vars

\* ================================================================ claims
Last(q) == q[Len(q)]
MinOf(S) == CHOOSE x \in S : \A y \in S : x <= y
MaxOf(S) == CHOOSE x \in S : \A y \in S : x >= y
RangeOf(q) == {q[k] : k \in DOMAIN q}

\* a format that carries video, and one that has a usable height
IsVideo(f) == f.vcodec # "none"
HasHeight(f) == f.height \notin {ABSENT, NONE, 0}
IsAudioOnly(f) == f.acodec # "none" /\ f.vcodec = "none"
\* the heights a video can be had in
VideoHeights(formats) == {f.height : f \in {g \in RangeOf(formats) : IsVideo(g) /\ HasHeight(g)}}
\* every height any format carries
AllHeights(formats) == {f.height : f \in {g \in RangeOf(formats) : HasHeight(g)}}
\* a file size, missing and None counted as 0
SizeOrZero(f) == IF f.filesize \in {ABSENT, NONE} THEN 0 ELSE f.filesize
NoUndefinedSize(formats) == \A f \in RangeOf(formats) : f.filesize # NONE
TargetOf(label) == IntOf(DropLast(label))

\* get_video_info is about to run its selection on a non-empty format list
Selecting == pc = "select" /\ info.status = "info" /\ ~FormatsFalsy(info)
ChosenHeight(res) == IntOf(DropLast(res.resolution))

\* C1: ytdp.py's single-video get_video_info, given a non-empty format list
\* with at least one video-capable format of defined non-zero height (and no
\* file size bound to None), returns a result whose height is <= the target
\* when a video height <= target exists and is the smallest video height
\* otherwise, also when other formats carry a height without being video.
C1_ClosestFit ==
    [][ (Selecting /\ prog = "ytdp" /\ VideoHeights(info.formats) # {}
           /\ NoUndefinedSize(info.formats) /\ TargetOf(resolution) > 0)
        => /\ pc' = "display"
           /\ LET vh == VideoHeights(info.formats)
                  t == TargetOf(resolution)
              IN  IF \E h \in vh : h <= t
                  THEN ChosenHeight(result') <= t
                  ELSE ChosenHeight(result') = MinOf(vh) ]_vars

\* C7: when ytd.py's strict selection finds no video format with height <=
\* target but some format has a height, the error lists all distinct heights
\* and suggests the largest height <= target, or the smallest if none is.
C7_SuggestsLargestBelow ==
    [][ (Selecting /\ prog = "ytd" /\ NoUndefinedSize(info.formats)
           /\ ~(\E h \in VideoHeights(info.formats) : h <= TargetOf(resolution))
           /\ AllHeights(info.formats) # {})
        => /\ pc' = "raised"
           /\ exc'.heights = SortedSeq(AllHeights(info.formats))
           /\ LET below == {h \in AllHeights(info.formats) : h <= TargetOf(resolution)}
              IN  exc'.suggest = LabelOf(IF below # {} THEN MaxOf(below)
                                         ELSE MinOf(AllHeights(info.formats))) ]_vars

\* C8: with one video format at or below the target and at most one
\* audio-only format, the reported size is the video file size plus the
\* audio file size, a missing or None file size counting as 0; the
\* computation does not fail; and a total of 0 is shown as 'Unknown'.
C8_SizeDefaultsToZero ==
    [][ /\ (Selecting
              /\ Cardinality({k \in DOMAIN info.formats :
                     IsVideo(info.formats[k]) /\ HasHeight(info.formats[k])}) = 1
              /\ Cardinality({k \in DOMAIN info.formats : HasHeight(info.formats[k])}) = 1
              /\ Cardinality({k \in DOMAIN info.formats : IsAudioOnly(info.formats[k])}) <= 1
              /\ \E h \in VideoHeights(info.formats) : h <= TargetOf(resolution))
           => /\ pc' = "display"
              /\ LET v == CHOOSE f \in RangeOf(info.formats) : IsVideo(f) /\ HasHeight(f)
                     audio == {f \in RangeOf(info.formats) : IsAudioOnly(f)}
                 IN  result'.size = SizeOrZero(v)
                        + (IF audio = {} THEN 0 ELSE SizeOrZero(CHOOSE f \in audio : TRUE))
        /\ (pc = "display" /\ pc' = "prompt" /\ shown'.kind = "video")
           => (shown'.size_text = "Unknown" <=> result.size = 0) ]_vars

\* C9: single-item get_video_info of either script raises the 'No formats
\* available' error, and returns nothing, whenever the item's format list is
\* empty, None or missing, for every target resolution.
C9_NoFormats ==
    [][ (pc = "select" /\ info.status = "info"
           /\ (info.formatsKey \in {"absent", "none"} \/ info.formats = <<>>))
        => /\ pc' = "raised"
           /\ exc'.text = "No formats available for this video"
           /\ exc'.type = "Exception"
           /\ exc'.wraps = <<IF prog = "ytd" THEN "Failed to get video info"
                            ELSE "Failed to get info">>
           /\ result' = result ]_vars
\* an empty format list was refused, under a target other than the default
C9_Witness ==
    /\ pc = "raised"
    /\ exc.text = "No formats available for this video"
    /\ resolution = L144

\* ---------------------------------------------------- playlist analysis
RECURSIVE SumSize(_)
SumSize(videos) == IF videos = <<>> THEN 0
                   ELSE SumSize(DropLast(videos)) + Last(videos).size
RECURSIVE SumDuration(_)
SumDuration(videos) == IF videos = <<>> THEN 0
                       ELSE SumDuration(DropLast(videos)) + Last(videos).duration
\* the entries handled so far whose get_video_info call raised
FailedSoFar == {k \in DOMAIN attempts : attempts[k] = "raised"}
WellFormed(es) == \A k \in DOMAIN es : es[k].present /\ UrlTruthy(es[k].url)

\* C2: after every iteration over a playlist whose entries all have a URL,
\* with N entries handled of which K failed metadata retrieval or selection,
\* 'videos' has N-K elements, 'skipped_videos' has K, and the totals are the
\* sums of the 'size' and 'duration' fields of 'videos'.
C2_CountsAndTotals ==
    (pc = "loop" /\ WellFormed(entries))
    => LET n == i - 1
           k == Cardinality(FailedSoFar)
       IN  /\ Len(videos_info) = n - k
           /\ Len(skipped_videos) = k
           /\ total_size = SumSize(videos_info)
           /\ total_duration = SumDuration(videos_info)

\* C4: an iteration in which the entry's processing fails appends exactly
\* one record (the entry's title, its url, the message of the error) to
\* skipped_videos and leaves the loop running; the loop ends only after the
\* last entry; 'videos' only ever grows at its end, in iteration order.
EntryErrors ==
    {StrOf(YtdpTry(f, resolution).exc) : f \in {g \in EntryFetches : ~YtdpTry(g, resolution).ok}}
    \cup {StrOf(Exc("TypeError", "unsupported operand type(s) for +=: NoneType"))}
C4_SkipAndContinue ==
    /\ [][ (pc = "loop" /\ i' = i + 1)
           => /\ pc' = "loop"
              /\ \/ videos_info' = videos_info
                 \/ /\ Len(videos_info') = Len(videos_info) + 1
                    /\ DropLast(videos_info') = videos_info
              /\ IF Last(attempts') \in {"raised", "added_then_raised"}
                 THEN /\ Len(skipped_videos') = Len(skipped_videos) + 1
                      /\ DropLast(skipped_videos') = skipped_videos
                      /\ Last(skipped_videos').title
                           = (IF entries[i].title = AbsentStr THEN "Unknown Title"
                              ELSE entries[i].title)
                      /\ Last(skipped_videos').url = entries[i].url
                      /\ Last(skipped_videos').reason \in EntryErrors
                      /\ Last(skipped_videos').reason.text # ""
                 ELSE skipped_videos' = skipped_videos ]_vars
    /\ [][ (pc = "loop" /\ pc' # "loop")
           => (pc' = "display" /\ Len(attempts) = Len(entries)) ]_vars
\* a failure on the first entry, the second still analysed and returned
C4_Witness ==
    /\ pc = "display"
    /\ attempts = <<"raised", "added">>
    /\ Len(skipped_videos) = 1
    /\ skipped_videos[1].title = "Unknown Title"
    /\ result.video_count = 1

\* C5 as stated: after every handled entry, kept or skipped, one progress
\* line (entries handled so far, total) is printed: N entries (each with a
\* URL) give the lines (1, N) .. (N, N).
C5_EveryEntryNotified ==
    (pc = "loop" /\ WellFormed(entries)) => progress = [k \in 1..(i - 1) |-> <<k, Len(entries)>>]

\* C5, amended: a progress line (position of the entry, number of entries)
\* is printed exactly for the entries that were analysed and added to the
\* totals without an error, in order; a skipped or ignored entry prints none.
AddedPositions == SortedSeq({k \in DOMAIN attempts : attempts[k] = "added"})
C5_ProgressOnSuccess ==
    /\ Len(progress) = Len(AddedPositions)
    /\ \A j \in DOMAIN progress : progress[j] = <<AddedPositions[j], Len(entries)>>
    /\ Len(progress) <= Len(entries)
    /\ \A j \in DOMAIN progress : j > 1 => progress[j - 1][1] < progress[j][1]
    \* each handled entry gave a progress line, a skip record, or was ignored
    /\ i >= 1 => Len(progress) + Len(skipped_videos)
                   + Cardinality({k \in 1..(i - 1) :
                        ~(entries[k].present /\ UrlTruthy(entries[k].url))})
                  = i - 1
\* the first entry is skipped, the second analysed: the only line is (2, 2)
C5_Witness ==
    /\ pc = "display"
    /\ Len(entries) = 2
    /\ Len(skipped_videos) = 1
    /\ progress = <<(<<2, 2>>)>>

\* ------------------------------------------------------ confirmation gate
\* C3 as stated: no directory creation or download call before a 'y' was
\* read; after an 'n' no download call; an answer other than 'y' and 'n'
\* leaves no side effect behind.
C3_GateAsStated ==
    /\ (mkdir_calls > 0 \/ download_calls # <<>>)
          => \E k \in DOMAIN responses : responses[k] = <<"y">>
    /\ (\E k \in DOMAIN responses : responses[k] = <<"n">>)
          => (download_calls = <<>> /\ mkdir_calls = 0)
    /\ (responses # <<>> /\ Last(responses) \notin {<<"y">>, <<"n">>})
          => (download_calls = <<>> /\ mkdir_calls = 0 /\ pc \notin {"mkdir", "download", "return"})

\* C3, amended: the answer is compared without regard to case.  No directory
\* creation or download call is made before a 'y' or 'Y' was read; 'n' or 'N'
\* ends the workflow with neither call made; 'y' or 'Y' goes on to the
\* directory creation and, unless that raises, to the download call; any
\* other answer prompts again and changes nothing else.
SaidYes(a) == a \in {<<"y">>, <<"Y">>}
SaidNo(a) == a \in {<<"n">>, <<"N">>}
C3_Gate ==
    /\ []( /\ (mkdir_calls > 0 \/ download_calls # <<>> \/ pc \in {"mkdir", "download"})
              => (responses # <<>> /\ SaidYes(Last(responses)))
           /\ (\E k \in DOMAIN responses : SaidNo(responses[k]))
              => (download_calls = <<>> /\ mkdir_calls = 0
                  /\ pc \in {"return", "exited"} /\ exc = NoExc) )
    /\ [][ /\ (pc = "prompt" /\ responses' # responses)
              => /\ DropLast(responses') = responses
                 /\ SaidYes(Last(responses')) => pc' = "mkdir"
                 /\ SaidNo(Last(responses')) => pc' = "return"
                 /\ (~SaidYes(Last(responses')) /\ ~SaidNo(Last(responses')))
                       => pc' = "prompt"
                 /\ UNCHANGED <<prog, argv, resolution, info, result, exc, loopVars,
                                shown, mkdir_calls, download_calls, printed_error,
                                exit_status>>
           /\ (pc = "mkdir" /\ pc' # "mkdir")
              => (mkdir_calls' = mkdir_calls + 1 /\ pc' \in {"download", "raised"})
           /\ (pc = "download" /\ pc' # "download")
              => Len(download_calls') = Len(download_calls) + 1 ]_vars
\* an answer that is neither, then 'Y', then the download call
C3_Witness ==
    /\ responses = << <<"y", "e", "s">>, <<"Y">> >>
    /\ mkdir_calls = 1
    /\ Len(download_calls) = 1

\* -------------------------------------------------------------- exit status
\* C6: the process ends with a non-zero status when fewer than 2 positional
\* arguments were given and when an error propagated out of download_video,
\* and with status zero only when the workflow completed or was cancelled.
C6_NonZeroOnFailure ==
    pc = "exited" => ((argv.argc < 3 \/ printed_error # NoStr) <=> exit_status # 0)

\* C10: every download call is bounded by the height of the resolution label
\* that was requested and used for the summary.
C10_BoundIsRequested ==
    \A k \in DOMAIN download_calls :
        IntOf(download_calls[k].height) = TargetOf(resolution)

====
